---- MODULE Spec2Model ----
(***************************************************************************)
(* Model of the Steam catalogue scraper: the SQLite store written by       *)
(* SteamScraper._save_to_database, the bounded-retry extraction of         *)
(* SteamScraper.scrape_game_details, the scroll loop of                    *)
(* SteamScraper.scroll_and_collect_games and the start/stop handling of    *)
(* the web front end (app.py), and the date functions of app.py and of    *)
(* steam_db_search.py.                                                     *)
(*                                                                         *)
(* Six specifications share the module:                                    *)
(*   SpecExtract   one connection running scrape_game_details calls        *)
(*   SpecRun       socket handlers and worker threads of app.py            *)
(*   SpecHarvest   one call of scroll_and_collect_games                    *)
(*   SpecPipeline  one worker from its harvest to its final message        *)
(*   SpecDates     calls of the date functions                             *)
(*   SpecFields    the field extraction of scrape_game_details on a page   *)
(***************************************************************************)
EXTENDS Integers, Sequences, FiniteSets

(***************************************************************************)
(* Bounds of the model.                                                    *)
(***************************************************************************)
MaxSaves == 1       \* upserts committed in one behaviour
MaxTags == 2        \* .app_tag elements on one page
MaxThreads == 2     \* start commands accepted in one behaviour
MaxLinks == 2       \* links returned by one harvest
MaxScrolls == 6     \* scroll iterations after which the page shows nothing new
MaxPasses == 2      \* the same, for the pages a whole run is followed on

(***************************************************************************)
(* Program constants.                                                      *)
(***************************************************************************)
max_retries == 3
max_attempts == 5

(***************************************************************************)
(* Inputs.  A link is the href of a search row; the fifth path segment is  *)
(* the identifier whatever the fourth one is (app, sub, bundle).           *)
(***************************************************************************)
Links == { [kind |-> "app", seg |-> "1"],
           [kind |-> "app", seg |-> "2"],
           [kind |-> "sub", seg |-> "1"] }
Names == {"n1", "n2"}
TagTexts == {"A", "B"}

RECURSIVE SeqsUpTo(_, _)
SeqsUpTo(S, n) ==
    IF n = 0 THEN { <<>> }
    ELSE LET shorter == SeqsUpTo(S, n - 1)
         IN  shorter \cup { Append(s, x) : s \in shorter, x \in S }

TagLists == SeqsUpTo(TagTexts, MaxTags)

\* url.split('/')[4]
AppIdOf(url) == url.seg

\* INTEGER affinity of the app_id columns: the text of the segment is
\* stored, and compared, as the integer it spells.
IntOfText(t) ==
    CASE t = "1" -> 1
      [] t = "2" -> 2
      [] t = "3" -> 3
      [] OTHER -> 0

\* str(row[0]) in get_existing_app_ids
TextOfInt(n) ==
    CASE n = 1 -> "1"
      [] n = 2 -> "2"
      [] n = 3 -> "3"
      [] OTHER -> "0"

Range(s) == { s[i] : i \in DOMAIN s }

VARIABLES
    db,         \* the connection's view of the tables: committed rows plus
                \* the writes of the open transaction
    committed,  \* the tables as last committed
    now,        \* datetime.now() as a logical clock: the commits so far
    call,       \* the scrape_game_details call in progress
    stored,     \* history: per key, the game_data of its latest committed upsert
    last,       \* history: the game_data of the latest committed upsert
    pre,        \* history: the committed tables when the call in progress began
    scraping_status,  \* app.py: the global status dictionary
    threads,    \* app.py: the worker threads running WebScraper.start_scraping
    reply,      \* app.py: "error" when the last socket handler emitted one
    stopped,    \* history: the threads that were active when a stop arrived
    index,      \* the search page: when each link scrolls into view, the
                \* search_results_count it shows
    harvest,    \* the scroll_and_collect_games call
    processed,  \* history: how each scrape_game_details call of the worker's
                \* for loop ended, in order
    query,      \* app.py: one call of a date function, arguments and result
    fields      \* the field extraction of scrape_game_details on one page

extractVars == <<db, committed, now, call, stored, last, pre>>

runVars == <<scraping_status, threads, reply, stopped>>

harvestVars == <<index, harvest>>

itemVars == <<processed>>

dateVars == <<query>>

fieldVars == <<fields>>

vars == <<db, committed, now, call, stored, last, pre,
          scraping_status, threads, reply, stopped, index, harvest,
          processed, query, fields>>

(***************************************************************************)
(* app.py: the date functions.  A datetime is the record of its year,      *)
(* month and day (the functions never produce a time of day other than     *)
(* midnight); NoDate stands for None.                                      *)
(***************************************************************************)
NoDate == [y |-> 0, m |-> 0, d |-> 0]

NoQuery == [pc |-> "none", text |-> <<>>, start |-> NoDate, end |-> NoDate,
            release_dt |-> NoDate, result |-> FALSE]

(***************************************************************************)
(* scrape_game_details: the page and the fields taken from it.  A text is  *)
(* the sequence of its characters; NoElem stands for the None of           *)
(* select_one; a float is the record of its digits and of the number of    *)
(* them behind the point, NoRating stands for the None of user_rating.     *)
(***************************************************************************)
NoElem == <<"None">>

Unknown == <<"U", "n", "k", "n", "o", "w", "n">>

ZeroFloat == [digits |-> 0, places |-> 0]

NoRating == [digits |-> 0 - 1, places |-> 0]

NoSoup == [dev_rows |-> <<>>, details_block |-> <<>>, pub_link |-> NoElem,
           developers_list |-> NoElem, price_elem |-> NoElem,
           rating_elem |-> NoElem]

\* consulted is a history field: the publisher methods that looked at the
\* page; result is what scrape_game_details goes on to return
NoFields == [pc |-> "none", soup |-> NoSoup, developer |-> Unknown,
             publisher |-> Unknown, price |-> ZeroFloat,
             user_rating |-> NoRating, consulted |-> {}, result |-> "none"]

(***************************************************************************)
(* app.py: the status dictionary and the worker threads.                   *)
(***************************************************************************)
Threads == 1 .. MaxThreads

\* scraping_status as the module is loaded
\* completed_count is the number written into the message
\* 'Completed! Scraped N games.' (0 as long as no such message was written)
Ready == [is_active |-> FALSE, status_message |-> "Ready", scraped_count |-> 0,
          completed_count |-> 0]

\* a thread not yet started
NoThread == [pc |-> "none", game_links |-> <<>>, i |-> 0]

(***************************************************************************)
(* The search page and the harvest call.                                   *)
(***************************************************************************)
NoHint == 0 - 1

\* appears[l] is the scroll iteration from which link l is among the
\* a.search_result_row elements, 0 if it never is; hint is the number in
\* .search_results_count, NoHint if the element is missing
NoIndex == [appears |-> [ l \in Links |-> 0 ], hint |-> NoHint]

\* stop is a history field: why the loop was left
NoHarvest == [pc |-> "idle", iterations |-> 0, game_links |-> {},
              existing_apps |-> {}, last_count |-> 0,
              no_new_games_count |-> 0, result |-> <<>>, stop |-> "none"]

(***************************************************************************)
(* Tables.  games is a set of rows, tags a set of rows keyed by the        *)
(* AUTOINCREMENT id; seq is the AUTOINCREMENT high-water mark, which is    *)
(* part of the database and so of the transaction.                         *)
(***************************************************************************)
EmptyTables == [games |-> {}, tags |-> {}, seq |-> 0]

\* CREATE TABLE IF NOT EXISTS ... ; commit
setup_database == EmptyTables

\* SELECT app_id FROM games, as a set of strings
get_existing_app_ids(t) == { TextOfInt(r.app_id) : r \in t.games }

\* plain INSERT into a table without the PRIMARY KEY
InsertGameNoKey(t, g, ts) ==
    [t EXCEPT !.games = @ \cup { [app_id |-> IntOfText(g.app_id),
                                  name |-> g.name, steam_url |-> g.steam_url,
                                  last_updated |-> ts] }]

\* the INSERT into games left out
InsertGameSkipped(t, g, ts) == t

\* the REPLACE deletes every row of games, not only the row of the key
ReplaceAllGames(t, g, ts) ==
    [t EXCEPT !.games = { [app_id |-> IntOfText(g.app_id), name |-> g.name,
                           steam_url |-> g.steam_url, last_updated |-> ts] }]

\* INSERT OR REPLACE INTO games: the PRIMARY KEY conflict deletes the old
\* row of the key, then the new row is inserted.
InsertOrReplaceGame(t, g, ts) ==
    LET key == IntOfText(g.app_id)
        row == [app_id |-> key, name |-> g.name, steam_url |-> g.steam_url,
                last_updated |-> ts]
    IN  [t EXCEPT !.games = { r \in t.games : r.app_id # key } \cup {row}]

\* deletes only the rows about to be inserted again
DeleteTagsReinserted(t, g) ==
    [t EXCEPT !.tags = { r \in t.tags : \/ r.app_id # IntOfText(g.app_id)
                                        \/ r.tag \notin Range(g.tags) }]

\* the DELETE left out
DeleteTagsSkipped(t, g) == t

\* DELETE FROM tags WHERE app_id = ?
DeleteTags(t, g) ==
    [t EXCEPT !.tags = { r \in t.tags : r.app_id # IntOfText(g.app_id) }]

\* executemany(INSERT INTO tags (app_id, tag) VALUES (?, ?)), one row per
\* element of game_data['tags'], ids taken from the AUTOINCREMENT counter
InsertTags(t, g) ==
    [t EXCEPT
       !.tags = t.tags \cup
                { [id |-> t.seq + i, app_id |-> IntOfText(g.app_id),
                   tag |-> g.tags[i]] : i \in DOMAIN g.tags },
       !.seq = t.seq + Len(g.tags)]

(***************************************************************************)
(* scrape_game_details(url), one action per blocking step.                 *)
(***************************************************************************)
NoData == [app_id |-> "", steam_url |-> [kind |-> "", seg |-> ""],
           name |-> "", tags |-> <<>>]

\* gets, failure, fault and prev are history fields: the GETs performed,
\* the error branch taken, the step at which sqlite3.Error was caught and
\* the value of last when the call began
Idle == [pc |-> "idle", url |-> [kind |-> "", seg |-> ""], retry_count |-> 0,
         gets |-> 0, game_data |-> NoData, result |-> "none",
         failure |-> "none", fault |-> "none", prev |-> NoData]

\* _save_to_database run to its commit
Upsert(t, g, ts) == InsertTags(DeleteTags(InsertOrReplaceGame(t, g, ts), g), g)

\* The database file outlives the process (CREATE TABLE IF NOT EXISTS): a
\* scraper starts on what earlier runs committed.  An earlier run is given
\* by the records it upserted, in order, at times before 0; the last one
\* worked on another search page, whose link is not among Links.
EarlierRuns ==
    { <<>>,
      << [app_id |-> "1", steam_url |-> [kind |-> "app", seg |-> "1"],
          name |-> "n1", tags |-> <<"A", "B">>] >>,
      << [app_id |-> "2", steam_url |-> [kind |-> "app", seg |-> "2"],
          name |-> "n2", tags |-> <<"B">>],
         [app_id |-> "1", steam_url |-> [kind |-> "sub", seg |-> "1"],
          name |-> "n2", tags |-> <<"B", "A">>] >>,
      << [app_id |-> "3", steam_url |-> [kind |-> "app", seg |-> "3"],
          name |-> "n1", tags |-> <<"A">>] >> }

RECURSIVE ReplayAt(_, _)
ReplayAt(h, n) ==
    IF h = <<>> THEN setup_database
    ELSE Upsert(ReplayAt(SubSeq(h, 1, Len(h) - 1), n), h[Len(h)],
                Len(h) - n - 1)

Replay(h) == ReplayAt(h, Len(h))

LatestIn(h, key) ==
    IF \E i \in DOMAIN h : IntOfText(h[i].app_id) = key
    THEN h[CHOOSE i \in DOMAIN h :
             /\ IntOfText(h[i].app_id) = key
             /\ \A j \in DOMAIN h : j > i => IntOfText(h[j].app_id) # key]
    ELSE NoData

InitExtract ==
    \E h \in EarlierRuns :
        /\ db = Replay(h)
        /\ committed = Replay(h)
        /\ now = 0
        /\ call = Idle
        /\ stored = [ k \in {1, 2} |-> LatestIn(h, k) ]
        /\ last = IF h = <<>> THEN NoData ELSE h[Len(h)]
        /\ pre = Replay(h)
        /\ scraping_status = Ready
        /\ threads = [ t \in Threads |-> NoThread ]
        /\ reply = "none"
        /\ stopped = {}
        /\ index = NoIndex
        /\ harvest = NoHarvest
        /\ processed = <<>>
        /\ query = NoQuery
        /\ fields = NoFields

\* the caller invokes scrape_game_details(url): retry_count = 0
Call(url) ==
    /\ call.pc \in {"idle", "returned"}
    /\ now < MaxSaves
    /\ call' = [Idle EXCEPT !.pc = "get", !.url = url, !.prev = last]
    /\ pre' = committed
    /\ UNCHANGED <<db, committed, now, stored, last, runVars, harvestVars, itemVars, dateVars, fieldVars>>

\* loop condition retry_count <= max_retries
GetFailOneMore ==
    /\ call.pc = "get"
    /\ LET rc == call.retry_count + 1
       IN  call' = [call EXCEPT
                      !.gets = @ + 1,
                      !.retry_count = rc,
                      !.pc = IF rc <= max_retries THEN "get" ELSE "returned",
                      !.result = IF rc <= max_retries THEN @ ELSE "None",
                      !.failure = IF rc <= max_retries THEN @ ELSE "Unreachable"]
    /\ UNCHANGED <<db, committed, now, stored, last, pre, runVars, harvestVars, itemVars, dateVars, fieldVars>>

\* requests.get / raise_for_status raise RequestException: count the
\* attempt, sleep, and leave the loop once retry_count reaches max_retries
GetFail ==
    /\ call.pc = "get"
    /\ LET rc == call.retry_count + 1
       IN  call' = [call EXCEPT
                      !.gets = @ + 1,
                      !.retry_count = rc,
                      !.pc = IF rc < max_retries THEN "get" ELSE "returned",
                      !.result = IF rc < max_retries THEN @ ELSE "None",
                      !.failure = IF rc < max_retries THEN @ ELSE "Unreachable"]
    /\ UNCHANGED <<db, committed, now, stored, last, pre, runVars, harvestVars, itemVars, dateVars, fieldVars>>

\* the GET succeeds with a 2xx page
GetOk ==
    /\ call.pc = "get"
    /\ call' = [call EXCEPT !.gets = @ + 1, !.pc = "parse"]
    /\ UNCHANGED <<db, committed, now, stored, last, pre, runVars, harvestVars, itemVars, dateVars, fieldVars>>

\* every exception handled by the RequestException branch
ParseErrorRetried ==
    /\ call.pc = "parse"
    /\ LET rc == call.retry_count + 1
       IN  call' = [call EXCEPT
                      !.retry_count = rc,
                      !.pc = IF rc < max_retries THEN "get" ELSE "returned",
                      !.result = IF rc < max_retries THEN @ ELSE "None",
                      !.failure = "ParseError"]
    /\ UNCHANGED <<db, committed, now, stored, last, pre, runVars, harvestVars, itemVars, dateVars, fieldVars>>

\* field extraction raises something that is not a RequestException
\* (float() of an unparsable price or rating, int('') of a review count)
ParseError ==
    /\ call.pc = "parse"
    /\ call' = [call EXCEPT !.pc = "returned", !.result = "None",
                             !.failure = "ParseError"]
    /\ UNCHANGED <<db, committed, now, stored, last, pre, runVars, harvestVars, itemVars, dateVars, fieldVars>>

\* field extraction fills game_data
ParseOk(name, tags) ==
    /\ call.pc = "parse"
    /\ call' = [call EXCEPT
                  !.pc = "save_games",
                  !.game_data = [app_id |-> AppIdOf(call.url),
                                 steam_url |-> call.url,
                                 name |-> name, tags |-> tags]]
    /\ UNCHANGED <<db, committed, now, stored, last, pre, runVars, harvestVars, itemVars, dateVars, fieldVars>>

\* return game_data
ReturnRecord(c) ==
    [c EXCEPT !.pc = "returned", !.result = "game_data"]

\* _save_to_database, the SELECTs and INSERT OR REPLACE INTO games
SaveGames ==
    /\ call.pc = "save_games"
    /\ db' = InsertOrReplaceGame(db, call.game_data, now + 1)
    /\ call' = [call EXCEPT !.pc = "save_delete"]
    /\ UNCHANGED <<committed, now, stored, last, pre, runVars, harvestVars, itemVars, dateVars, fieldVars>>

\* _save_to_database, DELETE FROM tags
SaveDeleteTags ==
    /\ call.pc = "save_delete"
    /\ db' = DeleteTags(db, call.game_data)
    /\ call' = [call EXCEPT !.pc = "save_insert"]
    /\ UNCHANGED <<committed, now, stored, last, pre, runVars, harvestVars, itemVars, dateVars, fieldVars>>

\* _save_to_database, executemany INSERT INTO tags
SaveInsertTags ==
    /\ call.pc = "save_insert"
    /\ db' = InsertTags(db, call.game_data)
    /\ call' = [call EXCEPT !.pc = "save_commit"]
    /\ UNCHANGED <<committed, now, stored, last, pre, runVars, harvestVars, itemVars, dateVars, fieldVars>>

\* _save_to_database, commit; scrape_game_details then returns game_data
SaveCommit ==
    /\ call.pc = "save_commit"
    /\ committed' = db
    /\ call' = ReturnRecord(call)
    /\ now' = now + 1
    /\ stored' = [stored EXCEPT ![IntOfText(call.game_data.app_id)] = call.game_data]
    /\ last' = call.game_data
    /\ UNCHANGED <<db, pre, runVars, harvestVars, itemVars, dateVars, fieldVars>>

\* the rollback left out
RollbackSkipped(t) == t

\* db_conn.rollback(): the connection's view falls back to the committed rows
Rollback(t) == committed

\* except sqlite3.Error: log and rollback.  The exception is not re-raised,
\* so scrape_game_details goes on to return game_data.
SaveFault ==
    /\ call.pc \in {"save_games", "save_delete", "save_insert", "save_commit"}
    /\ db' = Rollback(db)
    /\ call' = [ReturnRecord(call) EXCEPT !.fault = call.pc]
    /\ UNCHANGED <<committed, now, stored, last, pre, runVars, harvestVars, itemVars, dateVars, fieldVars>>

NextExtract ==
    \/ \E url \in Links : Call(url)
    \/ GetFail
    \/ GetOk
    \/ ParseError
    \/ \E name \in Names, tags \in TagLists : ParseOk(name, tags)
    \/ SaveGames
    \/ SaveDeleteTags
    \/ SaveInsertTags
    \/ SaveCommit
    \/ SaveFault

SpecExtract == InitExtract /\ [][NextExtract]_vars

(***************************************************************************)
(* app.py: the socket handlers and WebScraper.start_scraping.  The worker  *)
(* is cut where it reads or writes scraping_status['is_active'] and around *)
(* its blocking calls; a handler runs as one step.  In this specification  *)
(* scrape_game_details is taken by its return value only.                  *)
(***************************************************************************)
\* what scroll_and_collect_games returns: n distinct links, here named by
\* their position in the list
LinkLists == { [ j \in 1 .. n |-> j ] : n \in 0 .. MaxLinks }

\* the url and database fields of a start request, after strip()
StartInputs == {"", "x"}

\* the thread is executing start_scraping
Running(t) == threads[t].pc \notin {"none", "done"}

\* the thread is executing start_scraping and has set is_active (line 119)
Active(t) == threads[t].pc \notin {"none", "started", "done"}

InitRun ==
    /\ scraping_status = Ready
    /\ threads = [ t \in Threads |-> NoThread ]
    /\ reply = "none"
    /\ stopped = {}
    /\ index = NoIndex
    /\ harvest = NoHarvest
    /\ processed = <<>>
    /\ query = NoQuery
    /\ fields = NoFields
    /\ db = setup_database
    /\ committed = setup_database
    /\ now = 0
    /\ call = Idle
    /\ stored = [ k \in {1, 2} |-> NoData ]
    /\ last = NoData
    /\ pre = setup_database

\* handle_start_scraping(data)
handle_start_scraping(url, db_name) ==
    /\ IF scraping_status.is_active
       THEN /\ reply' = "error"    \* Scraping is already in progress
            /\ UNCHANGED threads
       ELSE IF url = ""
       THEN /\ reply' = "error"    \* Please provide a valid Steam URL
            /\ UNCHANGED threads
       ELSE IF db_name = ""
       THEN /\ reply' = "error"    \* Please provide a database name
            /\ UNCHANGED threads
       ELSE /\ \E t \in Threads :
                 /\ threads[t].pc = "none"
                 /\ \A u \in Threads : u < t => threads[u].pc # "none"
                 /\ threads' = [threads EXCEPT ![t].pc = "started"]
            /\ reply' = "none"
    /\ UNCHANGED <<scraping_status, stopped, extractVars, harvestVars, itemVars, dateVars, fieldVars>>

\* handle_stop_scraping()
handle_stop_scraping ==
    /\ scraping_status' = [scraping_status EXCEPT
                             !.is_active = FALSE,
                             !.status_message = "Stopping..."]
    /\ reply' = "none"
    /\ stopped' = stopped \cup { t \in Threads : Active(t) }
    /\ UNCHANGED <<threads, extractVars, harvestVars, itemVars, dateVars, fieldVars>>

\* start_scraping, lines 119-121
WorkerBegin(t) ==
    /\ threads[t].pc = "started"
    /\ scraping_status' = [scraping_status EXCEPT
                             !.is_active = TRUE,
                             !.status_message = "Initializing scraper..."]
    /\ threads' = [threads EXCEPT ![t].pc = "setup"]
    /\ UNCHANGED <<reply, stopped, extractVars, harvestVars, itemVars, dateVars, fieldVars>>

\* start_scraping, lines 125-138: scraper, driver, existing ids
WorkerSetup(t) ==
    /\ threads[t].pc = "setup"
    /\ scraping_status' = [scraping_status EXCEPT
                             !.status_message = "Collecting game links..."]
    /\ threads' = [threads EXCEPT ![t].pc = "collect"]
    /\ UNCHANGED <<reply, stopped, extractVars, harvestVars, itemVars, dateVars, fieldVars>>

\* start_scraping, lines 190-198: an exception of the setup or of the loop
WorkerError(t) ==
    /\ threads[t].pc \in {"setup", "collect"}
    /\ scraping_status' = [scraping_status EXCEPT
                             !.is_active = FALSE,
                             !.status_message = "Error"]
    /\ threads' = [threads EXCEPT ![t].pc = "done"]
    /\ UNCHANGED <<reply, stopped, extractVars, harvestVars, itemVars, dateVars, fieldVars>>

\* the return of line 158 left out: an empty harvest enters the for loop
WorkerCollectNoReturn(t, links) ==
    /\ threads[t].pc = "collect"
    /\ scraping_status' = [scraping_status EXCEPT !.scraped_count = 0]
    /\ threads' = [threads EXCEPT ![t].pc = "check",
                                  ![t].game_links = links]
    /\ UNCHANGED <<reply, stopped, extractVars, harvestVars, itemVars, dateVars, fieldVars>>

\* start_scraping, lines 142-158: the harvest returns, totals are published,
\* and an empty harvest ends the run
WorkerCollect(t, links) ==
    /\ threads[t].pc = "collect"
    /\ IF Len(links) = 0
       THEN /\ scraping_status' = [scraping_status EXCEPT
                  !.scraped_count = 0,
                  !.is_active = FALSE,
                  !.status_message = "No new games found to scrape."]
            /\ threads' = [threads EXCEPT ![t].pc = "done"]
       ELSE /\ scraping_status' = [scraping_status EXCEPT
                  !.scraped_count = 0]
            /\ threads' = [threads EXCEPT ![t].pc = "check",
                                          ![t].game_links = links]
    /\ UNCHANGED <<reply, stopped, extractVars, harvestVars, itemVars, dateVars, fieldVars>>

\* start_scraping, lines 161-173: the head of the for loop
WorkerCheck(t) ==
    /\ threads[t].pc = "check"
    /\ LET th == threads[t]
           n == Len(th.game_links)
       IN  IF th.i = n \/ ~scraping_status.is_active
           THEN /\ threads' = [threads EXCEPT ![t].pc = "finish"]
                /\ UNCHANGED scraping_status
           ELSE /\ scraping_status' = [scraping_status EXCEPT
                      !.scraped_count = th.i,
                      !.status_message = "Scraping"]
                /\ threads' = [threads EXCEPT ![t].pc = "scrape"]
    /\ UNCHANGED <<reply, stopped, extractVars, harvestVars, itemVars, dateVars, fieldVars>>

\* start_scraping, lines 176-182: scrape_game_details returns, then sleep(1)
WorkerScrape(t, result) ==
    /\ threads[t].pc = "scrape"
    /\ result \in {"game_data", "None"}
    /\ threads' = [threads EXCEPT ![t].pc = "check",
                                  ![t].i = @ + 1]
    /\ UNCHANGED <<scraping_status, reply, stopped, extractVars, harvestVars, itemVars, dateVars, fieldVars>>

\* start_scraping, lines 184-198: after the loop
WorkerFinish(t) ==
    /\ threads[t].pc = "finish"
    /\ scraping_status' = [scraping_status EXCEPT
                             !.is_active = FALSE,
                             !.status_message = "Completed",
                             !.completed_count = Len(threads[t].game_links)]
    /\ threads' = [threads EXCEPT ![t].pc = "done"]
    /\ UNCHANGED <<reply, stopped, extractVars, harvestVars, itemVars, dateVars, fieldVars>>

NextRun ==
    \/ \E url \in StartInputs, db_name \in StartInputs :
          handle_start_scraping(url, db_name)
    \/ handle_stop_scraping
    \/ \E t \in Threads : WorkerBegin(t)
    \/ \E t \in Threads : WorkerSetup(t)
    \/ \E t \in Threads : WorkerError(t)
    \/ \E t \in Threads, links \in LinkLists : WorkerCollect(t, links)
    \/ \E t \in Threads : WorkerCheck(t)
    \/ \E t \in Threads, result \in {"game_data", "None"} : WorkerScrape(t, result)
    \/ \E t \in Threads : WorkerFinish(t)

SpecRun == InitRun /\ [][NextRun]_vars

(***************************************************************************)
(* SteamScraper.scroll_and_collect_games, one action per pass of the       *)
(* while loop.  The page is fixed when the harvest starts: a link that has *)
(* scrolled into view stays in view.                                       *)
(***************************************************************************)
Hints == {NoHint} \cup (1 .. Cardinality(Links) + 1)

Indexes == [appears : [Links -> 0 .. MaxScrolls], hint : Hints]

\* driver.find_elements(a.search_result_row) in pass j
Visible(j) == { l \in Links : index.appears[l] # 0 /\ index.appears[l] <= j }

\* the orders list(game_links) can give
Orders(S) ==
    { q \in [1 .. Cardinality(S) -> S] :
        \A a, b \in DOMAIN q : a # b => q[a] # q[b] }

AllOrders == UNION { Orders(S) : S \in SUBSET Links }

InitHarvest ==
    /\ \E h \in EarlierRuns :
        /\ db = Replay(h)
        /\ committed = Replay(h)
        /\ pre = Replay(h)
        /\ stored = [ k \in {1, 2} |-> LatestIn(h, k) ]
        /\ last = IF h = <<>> THEN NoData ELSE h[Len(h)]
    /\ now = 0
    /\ call = Idle
    /\ scraping_status = Ready
    /\ threads = [ t \in Threads |-> NoThread ]
    /\ reply = "none"
    /\ stopped = {}
    /\ index \in Indexes
    /\ harvest = NoHarvest
    /\ processed = <<>>
    /\ query = NoQuery
    /\ fields = NoFields

\* lines 103-110
HarvestStart ==
    /\ harvest.pc = "idle"
    /\ harvest' = [NoHarvest EXCEPT
                     !.pc = "loop",
                     !.existing_apps = get_existing_app_ids(db)]
    /\ UNCHANGED <<index, extractVars, runVars, itemVars, dateVars, fieldVars>>

\* the else branch dropped: the count of passes without new links is
\* never reset
StagnationNeverReset(current_count, last_count, no_new_games_count) ==
    IF current_count = last_count
    THEN no_new_games_count + 1
    ELSE no_new_games_count

\* lines 137-143: no_new_games_count after the pass
Stagnation(current_count, last_count, no_new_games_count) ==
    IF current_count = last_count
    THEN no_new_games_count + 1
    ELSE 0

\* the test of line 129 dropped: every link in view is added
NewLinksUnfiltered(elements, existing_apps) == elements

\* lines 125-130: the links of the rows in view whose app_id is not stored
NewLinks(elements, existing_apps) ==
    { l \in elements : AppIdOf(l) \notin existing_apps }

\* >= replaced by >
CoveredStrict(total_games, hint) ==
    hint # NoHint /\ total_games > hint

\* lines 148-156: the page has a search_results_count whose digits give a
\* number, and total_games has reached it
Covered(total_games, hint) ==
    hint # NoHint /\ total_games >= hint

\* lines 113-156: one pass.  WebDriverWait needs a row in view.
ScrollIterate ==
    /\ harvest.pc = "loop"
    /\ Visible(harvest.iterations + 1) # {}
    /\ LET elements == Visible(harvest.iterations + 1)
           links == harvest.game_links \cup
                      NewLinks(elements, harvest.existing_apps)
           current_count == Cardinality(links)
           total_games == current_count + Cardinality(harvest.existing_apps)
           no_new == Stagnation(current_count, harvest.last_count,
                                harvest.no_new_games_count)
           stagnant == current_count = harvest.last_count /\ no_new >= max_attempts
           covered == Covered(total_games, index.hint)
       IN  harvest' = [harvest EXCEPT
                         !.iterations = @ + 1,
                         !.game_links = links,
                         !.no_new_games_count = no_new,
                         !.last_count = IF stagnant THEN @ ELSE current_count,
                         !.pc = IF stagnant \/ covered THEN "break" ELSE "loop",
                         !.stop = IF stagnant THEN "stagnation"
                                  ELSE IF covered THEN "hint" ELSE @]
    /\ UNCHANGED <<index, extractVars, runVars, itemVars, dateVars, fieldVars>>

\* lines 158-160: return list(game_links)
HarvestReturn(order) ==
    /\ harvest.pc = "break"
    /\ order \in Orders(harvest.game_links)
    /\ harvest' = [harvest EXCEPT !.pc = "returned", !.result = order]
    /\ UNCHANGED <<index, extractVars, runVars, itemVars, dateVars, fieldVars>>

\* lines 161-163: an exception in a pass (the wait times out, an element
\* has gone stale, an href has fewer than five segments): return []
HarvestRaise ==
    /\ harvest.pc = "loop"
    /\ harvest' = [harvest EXCEPT !.pc = "returned",
                                  !.iterations = @ + 1,
                                  !.result = <<>>,
                                  !.stop = "exception"]
    /\ UNCHANGED <<index, extractVars, runVars, itemVars, dateVars, fieldVars>>

NextHarvest ==
    \/ HarvestStart
    \/ ScrollIterate
    \/ \E order \in AllOrders : HarvestReturn(order)
    \/ HarvestRaise

SpecHarvest == InitHarvest /\ [][NextHarvest]_vars

(***************************************************************************)
(* One worker from line 140 of app.py on: the harvest pass by pass, then   *)
(* the for loop over the links it returned, with stop requests arriving at *)
(* any time.  The state at line 140 is the one SpecRun reaches by          *)
(* handle_start_scraping, WorkerBegin and WorkerSetup.  Each               *)
(* scrape_game_details call is one step that ends in one of the ways       *)
(* SpecExtract shows.                                                      *)
(***************************************************************************)
\* the search pages of SpecPipeline
PipelineIndexes == [appears : [Links -> 0 .. MaxPasses], hint : Hints]

Collecting == [Ready EXCEPT !.is_active = TRUE,
                            !.status_message = "Collecting game links..."]

\* how a scrape_game_details call ends: the record is committed; a
\* sqlite3.Error is caught and rolled back; three GETs fail; field
\* extraction raises
Outcomes == {"stored", "fault", "transport", "parse"}

\* what scrape_game_details returns to the loop
ResultOf(outcome) ==
    IF outcome \in {"stored", "fault"} THEN "game_data" ELSE "None"

\* the game_data built from the store page of the link
PageOf(url) ==
    [app_id |-> AppIdOf(url), steam_url |-> url, name |-> "n1",
     tags |-> <<"A">>]

InitPipeline ==
    /\ \E h \in EarlierRuns :
        /\ db = Replay(h)
        /\ committed = Replay(h)
        /\ pre = Replay(h)
        /\ stored = [ k \in {1, 2} |-> LatestIn(h, k) ]
        /\ last = IF h = <<>> THEN NoData ELSE h[Len(h)]
    /\ now = 0
    /\ call = Idle
    /\ scraping_status = Collecting
    /\ threads = [ t \in Threads |->
                     IF t = 1 THEN [NoThread EXCEPT !.pc = "collect"]
                     ELSE NoThread ]
    /\ reply = "none"
    /\ stopped = {}
    /\ index \in PipelineIndexes
    /\ harvest = NoHarvest
    /\ processed = <<>>
    /\ query = NoQuery
    /\ fields = NoFields

\* app.py lines 142-158 with the list the harvest returned
WorkerCollectHarvest(t) ==
    /\ harvest.pc = "returned"
    /\ WorkerCollect(t, harvest.result)

\* a failed item ends the loop
ScrapeItemAborting(t, outcome) ==
    /\ threads[t].pc = "scrape"
    /\ LET th == threads[t]
           g == PageOf(th.game_links[th.i + 1])
       IN  /\ IF outcome = "stored"
              THEN /\ db' = Upsert(db, g, now + 1)
                   /\ committed' = db'
                   /\ now' = now + 1
                   /\ stored' = [stored EXCEPT ![IntOfText(g.app_id)] = g]
                   /\ last' = g
              ELSE UNCHANGED <<db, committed, now, stored, last>>
           /\ pre' = committed
           /\ threads' = [threads EXCEPT
                            ![t].pc = IF ResultOf(outcome) = "None"
                                      THEN "finish" ELSE "check",
                            ![t].i = @ + 1]
           /\ processed' = Append(processed, outcome)
    /\ UNCHANGED <<call, scraping_status, reply, stopped, harvestVars,
                   dateVars, fieldVars>>

\* app.py lines 176-182 and scrape_game_details as a whole: the call for
\* the link at hand returns game_data or None, the loop logs it, sleeps
\* and goes on
ScrapeItem(t, outcome) ==
    /\ threads[t].pc = "scrape"
    /\ LET th == threads[t]
           g == PageOf(th.game_links[th.i + 1])
       IN  /\ IF outcome = "stored"
              THEN /\ db' = Upsert(db, g, now + 1)
                   /\ committed' = db'
                   /\ now' = now + 1
                   /\ stored' = [stored EXCEPT ![IntOfText(g.app_id)] = g]
                   /\ last' = g
              ELSE UNCHANGED <<db, committed, now, stored, last>>
           /\ pre' = committed
           /\ threads' = [threads EXCEPT ![t].pc = "check", ![t].i = @ + 1]
           /\ processed' = Append(processed, outcome)
    /\ UNCHANGED <<call, scraping_status, reply, stopped, harvestVars,
                   dateVars, fieldVars>>

\* the ranges asked for while a run is followed
SearchRanges ==
    { << [y |-> 2024, m |-> 1, d |-> 1], [y |-> 2024, m |-> 1, d |-> 31] >> }

\* app.py, search_games: a connection of its own, one SELECT over games,
\* the filter over the fetched rows, close.  The rows of the model carry
\* no release_date; the query keeps whether the SELECT fetched any row.
search_games(start_date, end_date) ==
    /\ query' = [NoQuery EXCEPT !.pc = "searched",
                                !.start = start_date,
                                !.end = end_date,
                                !.result = (committed.games # {})]
    /\ UNCHANGED <<extractVars, runVars, harvestVars, itemVars, fieldVars>>

NextPipeline ==
    \/ handle_stop_scraping
    \/ HarvestStart
    \/ ScrollIterate
    \/ \E order \in AllOrders : HarvestReturn(order)
    \/ HarvestRaise
    \/ WorkerCollectHarvest(1)
    \/ WorkerCheck(1)
    \/ \E outcome \in Outcomes : ScrapeItem(1, outcome)
    \/ WorkerFinish(1)
    \/ \E range \in SearchRanges : search_games(range[1], range[2])

SpecPipeline == InitPipeline /\ [][NextPipeline]_vars

(***************************************************************************)
(* app.py: parse_steam_date_to_comparable and is_steam_date_in_range.      *)
(* The calendar of datetime.                                               *)
(***************************************************************************)
MINYEAR == 1

MAXYEAR == 9999

IsLeap(y) == (y % 4 = 0 /\ y % 100 # 0) \/ y % 400 = 0

MonthLen(y, m) ==
    IF m = 2 THEN (IF IsLeap(y) THEN 29 ELSE 28)
    ELSE IF m \in {4, 6, 9, 11} THEN 30 ELSE 31

\* the values datetime(y, m, d) accepts; anything else is a ValueError
IsDate(dt) ==
    /\ dt.y \in MINYEAR .. MAXYEAR
    /\ dt.m \in 1 .. 12
    /\ dt.d \in 1 .. MonthLen(dt.y, dt.m)

\* a < b on datetimes
Before(a, b) ==
    \/ a.y < b.y
    \/ a.y = b.y /\ a.m < b.m
    \/ a.y = b.y /\ a.m = b.m /\ a.d < b.d

\* <= replaced by <
NotAfterStrict(a, b) == Before(a, b)

\* a <= b on datetimes
NotAfter(a, b) == a = b \/ Before(a, b)

\* dt - timedelta(days=1), for a dt later than 1 January of year 1
MinusOneDay(dt) ==
    IF dt.d > 1 THEN [dt EXCEPT !.d = @ - 1]
    ELSE IF dt.m > 1
    THEN [y |-> dt.y, m |-> dt.m - 1, d |-> MonthLen(dt.y, dt.m - 1)]
    ELSE [y |-> dt.y - 1, m |-> 12, d |-> 31]

(***************************************************************************)
(* A text is the sequence of its tokens: a run of word characters that are *)
(* all digits ("n", with its digits), any other run of word characters     *)
(* ("w", with its spelling), a comma ("c") or a run of whitespace ("s").   *)
(***************************************************************************)
Word(s) == [k |-> "w", s |-> s, ds |-> <<>>]

Num(ds) == [k |-> "n", s |-> "", ds |-> ds]

Comma == [k |-> "c", s |-> ",", ds |-> <<>>]

Space == [k |-> "s", s |-> " ", ds |-> <<>>]

\* calendar.month_name and calendar.month_abbr, as %B and %b read them
MonthName ==
    << "January", "February", "March", "April", "May", "June", "July",
       "August", "September", "October", "November", "December" >>

MonthAbbr ==
    << "Jan", "Feb", "Mar", "Apr", "May", "Jun", "Jul", "Aug", "Sep", "Oct",
       "Nov", "Dec" >>

Quarters == {"Q1", "Q2", "Q3", "Q4"}

\* the number of characters of a token that \w matches
TokLen(tok) ==
    IF tok.k = "n" THEN Len(tok.ds)
    ELSE IF tok.s \in Range(MonthAbbr) \cup {"TBA", "TBD"} THEN 3
    ELSE IF tok.s \in Quarters \cup {"Q5"} THEN 2
    ELSE IF tok.s \in {"June", "July", "Sept", "Soon"} THEN 4
    ELSE 5      \* five or more: no pattern tells them apart

IsWordRun(tok) == tok.k \in {"w", "n"}

RECURSIVE DigitsValue(_)
DigitsValue(ds) ==
    IF ds = <<>> THEN 0
    ELSE 10 * DigitsValue(SubSeq(ds, 1, Len(ds) - 1)) + ds[Len(ds)]

\* the position of a spelling in a table of month names, 0 if absent
MonthIndex(table, s) ==
    IF \E i \in 1 .. 12 : table[i] = s
    THEN CHOOSE i \in 1 .. 12 : table[i] = s
    ELSE 0

\* str.strip()
RECURSIVE Strip(_)
Strip(t) ==
    IF t = <<>> THEN t
    ELSE IF t[1].k = "s" THEN Strip(Tail(t))
    ELSE IF t[Len(t)].k = "s" THEN Strip(SubSeq(t, 1, Len(t) - 1))
    ELSE t

\* line 14: the stripped text is one of the four sentinels
IsSentinel(t) ==
    Strip(t) \in { <<Word("Unknown")>>, <<Word("TBA")>>, <<Word("TBD")>>,
                   <<Word("Coming"), Space, Word("Soon")>> }

\* re.match(r'^\d{4}$', date_str)
MatchYearOnly(t) ==
    Len(t) = 1 /\ t[1].k = "n" /\ Len(t[1].ds) = 4

\* re.match(r'Q[1-4]\s+\d{4}', date_str): a match of a prefix
MatchQuarter(t) ==
    /\ Len(t) >= 3
    /\ t[1].k = "w" /\ t[1].s \in Quarters
    /\ t[2].k = "s"
    /\ t[3].k = "n" /\ Len(t[3].ds) >= 4

\* the tail ',\s+\d{4}' of the three day patterns, from token i on
MatchCommaYear(t, i) ==
    /\ Len(t) >= i + 2
    /\ t[i].k = "c"
    /\ t[i + 1].k = "s"
    /\ t[i + 2].k = "n" /\ Len(t[i + 2].ds) >= 4

\* re.match(r'\d{1,2}\s+\w{3},\s+\d{4}', date_str)
MatchDayMon(t) ==
    /\ Len(t) >= 3
    /\ t[1].k = "n" /\ Len(t[1].ds) \in {1, 2}
    /\ t[2].k = "s"
    /\ IsWordRun(t[3]) /\ TokLen(t[3]) = 3
    /\ MatchCommaYear(t, 4)

\* re.match(r'\w{3}\s+\d{1,2},\s+\d{4}', date_str)
MatchMonDay(t) ==
    /\ Len(t) >= 3
    /\ IsWordRun(t[1]) /\ TokLen(t[1]) = 3
    /\ t[2].k = "s"
    /\ t[3].k = "n" /\ Len(t[3].ds) \in {1, 2}
    /\ MatchCommaYear(t, 4)

\* re.match(r'\w+\s+\d{1,2},\s+\d{4}', date_str)
MatchMonthDay(t) ==
    /\ Len(t) >= 3
    /\ IsWordRun(t[1])
    /\ t[2].k = "s"
    /\ t[3].k = "n" /\ Len(t[3].ds) \in {1, 2}
    /\ MatchCommaYear(t, 4)

\* re.match(r'^\w+\s+\d{4}$', date_str)
MatchMonthYear(t) ==
    /\ Len(t) = 3
    /\ IsWordRun(t[1])
    /\ t[2].k = "s"
    /\ t[3].k = "n" /\ Len(t[3].ds) = 4

\* the fields of strptime: %d is one or two digits giving 1..31, %Y four
\* digits, %b and %B a name of the table
DayField(tok) ==
    tok.k = "n" /\ Len(tok.ds) \in {1, 2} /\ DigitsValue(tok.ds) \in 1 .. 31

YearField(tok) == tok.k = "n" /\ Len(tok.ds) = 4

MonthField(table, tok) == tok.k = "w" /\ MonthIndex(table, tok.s) # 0

\* datetime(y, m, d) at the end of strptime; NoDate stands for ValueError
MakeDate(y, m, d) ==
    IF IsDate([y |-> y, m |-> m, d |-> d])
    THEN [y |-> y, m |-> m, d |-> d] ELSE NoDate

\* datetime.strptime(date_str, "%d %b, %Y")
StrptimeDayMon(t) ==
    IF /\ Len(t) = 6
       /\ DayField(t[1]) /\ t[2].k = "s" /\ MonthField(MonthAbbr, t[3])
       /\ t[4].k = "c" /\ t[5].k = "s" /\ YearField(t[6])
    THEN MakeDate(DigitsValue(t[6].ds), MonthIndex(MonthAbbr, t[3].s),
                  DigitsValue(t[1].ds))
    ELSE NoDate

\* datetime.strptime(date_str, "%b %d, %Y") and "%B %d, %Y"
StrptimeMonDay(table, t) ==
    IF /\ Len(t) = 6
       /\ MonthField(table, t[1]) /\ t[2].k = "s" /\ DayField(t[3])
       /\ t[4].k = "c" /\ t[5].k = "s" /\ YearField(t[6])
    THEN MakeDate(DigitsValue(t[6].ds), MonthIndex(table, t[1].s),
                  DigitsValue(t[3].ds))
    ELSE NoDate

\* datetime.strptime(date_str, "%B %Y") and "%b %Y": the first of the month
StrptimeMonthYear(table, t) ==
    IF /\ Len(t) = 3
       /\ MonthField(table, t[1]) /\ t[2].k = "s" /\ YearField(t[3])
    THEN MakeDate(DigitsValue(t[3].ds), MonthIndex(table, t[1].s), 1)
    ELSE NoDate

\* a bare year is read as its first of January
ParseYearAsDate(text) ==
    IF text = <<>> \/ IsSentinel(text) THEN NoDate
    ELSE LET date_str == Strip(text)
         IN  IF MatchYearOnly(date_str)
             THEN MakeDate(DigitsValue(date_str[1].ds), 1, 1)
             ELSE IF MatchQuarter(date_str) THEN NoDate
             ELSE IF MatchDayMon(date_str) THEN StrptimeDayMon(date_str)
             ELSE IF MatchMonDay(date_str)
             THEN StrptimeMonDay(MonthAbbr, date_str)
             ELSE IF MatchMonthDay(date_str)
             THEN StrptimeMonDay(MonthName, date_str)
             ELSE IF MatchMonthYear(date_str)
             THEN IF StrptimeMonthYear(MonthName, date_str) # NoDate
                  THEN StrptimeMonthYear(MonthName, date_str)
                  ELSE StrptimeMonthYear(MonthAbbr, date_str)
             ELSE NoDate

\* parse_steam_date_to_comparable(date_str); every ValueError ends in None
parse_steam_date_to_comparable(text) ==
    IF text = <<>> \/ IsSentinel(text) THEN NoDate
    ELSE LET date_str == Strip(text)
         IN  IF MatchYearOnly(date_str) THEN NoDate
             ELSE IF MatchQuarter(date_str) THEN NoDate
             ELSE IF MatchDayMon(date_str) THEN StrptimeDayMon(date_str)
             ELSE IF MatchMonDay(date_str)
             THEN StrptimeMonDay(MonthAbbr, date_str)
             ELSE IF MatchMonthDay(date_str)
             THEN StrptimeMonDay(MonthName, date_str)
             ELSE IF MatchMonthYear(date_str)
             THEN IF StrptimeMonthYear(MonthName, date_str) # NoDate
                  THEN StrptimeMonthYear(MonthName, date_str)
                  ELSE StrptimeMonthYear(MonthAbbr, date_str)
             ELSE NoDate

\* lines 68-74: the last day of the month of release_dt; NoDate stands for
\* the ValueError of replace(year=10000)
MonthEnd(release_dt) ==
    IF release_dt.m = 12
    THEN IF release_dt.y + 1 > MAXYEAR THEN NoDate
         ELSE MinusOneDay([y |-> release_dt.y + 1, m |-> 1, d |-> 1])
    ELSE MinusOneDay([y |-> release_dt.y, m |-> release_dt.m + 1, d |-> 1])

\* is_steam_date_in_range(release_date, start_date_str, end_date_str), the
\* two date strings taken by the days they name
is_steam_date_in_range(release_date, start_dt, end_dt) ==
    LET release_dt == parse_steam_date_to_comparable(release_date)
        is_month_only == MatchMonthYear(Strip(release_date))
        month_start == [release_dt EXCEPT !.d = 1]
        month_end == MonthEnd(release_dt)
    IN  IF release_dt = NoDate THEN FALSE
        ELSE IF is_month_only
        THEN IF month_end = NoDate THEN FALSE
             ELSE ~(Before(month_end, start_dt) \/ Before(end_dt, month_start))
        ELSE NotAfter(start_dt, release_dt) /\ NotAfter(release_dt, end_dt)

(***************************************************************************)
(* steam_db_search.py: its own copies of the two date functions, taken     *)
(* from its lines 22-95.                                                   *)
(***************************************************************************)
\* steam_db_search.py, parse_steam_date_to_comparable(date_str)
steam_db_search_parse_steam_date_to_comparable(text) ==
    IF text = <<>> \/ IsSentinel(text) THEN NoDate
    ELSE LET date_str == Strip(text)
         IN  IF MatchYearOnly(date_str) THEN NoDate
             ELSE IF MatchQuarter(date_str) THEN NoDate
             ELSE IF MatchDayMon(date_str) THEN StrptimeDayMon(date_str)
             ELSE IF MatchMonDay(date_str)
             THEN StrptimeMonDay(MonthAbbr, date_str)
             ELSE IF MatchMonthDay(date_str)
             THEN StrptimeMonDay(MonthName, date_str)
             ELSE IF MatchMonthYear(date_str)
             THEN IF StrptimeMonthYear(MonthName, date_str) # NoDate
                  THEN StrptimeMonthYear(MonthName, date_str)
                  ELSE StrptimeMonthYear(MonthAbbr, date_str)
             ELSE NoDate

\* steam_db_search.py, lines 80-85: the last day of the month of release_dt
steam_db_search_MonthEnd(release_dt) ==
    IF release_dt.m = 12
    THEN IF release_dt.y + 1 > MAXYEAR THEN NoDate
         ELSE MinusOneDay([y |-> release_dt.y + 1, m |-> 1, d |-> 1])
    ELSE MinusOneDay([y |-> release_dt.y, m |-> release_dt.m + 1, d |-> 1])

\* the month branch left out: a month text is compared as its first day
steam_db_search_range_by_day(release_date, start_dt, end_dt) ==
    LET release_dt == steam_db_search_parse_steam_date_to_comparable(release_date)
    IN  IF release_dt = NoDate THEN FALSE
        ELSE NotAfter(start_dt, release_dt) /\ NotAfter(release_dt, end_dt)

\* steam_db_search.py, is_steam_date_in_range(release_date, start_date_str,
\* end_date_str)
steam_db_search_is_steam_date_in_range(release_date, start_dt, end_dt) ==
    LET release_dt == steam_db_search_parse_steam_date_to_comparable(release_date)
        is_month_only == MatchMonthYear(Strip(release_date))
        month_start == [release_dt EXCEPT !.d = 1]
        month_end == steam_db_search_MonthEnd(release_dt)
    IN  IF release_dt = NoDate THEN FALSE
        ELSE IF is_month_only
        THEN IF month_end = NoDate THEN FALSE
             ELSE ~(Before(month_end, start_dt) \/ Before(end_dt, month_start))
        ELSE NotAfter(start_dt, release_dt) /\ NotAfter(release_dt, end_dt)

(***************************************************************************)
(* The texts and days the date functions are called with: days written in  *)
(* the formats of the store, month texts, vague texts and a few texts of   *)
(* no accepted format.                                                     *)
(***************************************************************************)
Digits4(n) == << n \div 1000, (n \div 100) % 10, (n \div 10) % 10, n % 10 >>

\* a day number, with a leading zero if pad
Digits2(n, pad) ==
    IF n >= 10 THEN << n \div 10, n % 10 >>
    ELSE IF pad THEN << 0, n >> ELSE << n >>

\* "16 Oct, 2025"
FormatDayMon(dt, pad) ==
    << Num(Digits2(dt.d, pad)), Space, Word(MonthAbbr[dt.m]), Comma, Space,
       Num(Digits4(dt.y)) >>

\* "Oct 16, 2025" and "October 16, 2025"
FormatMonDay(table, dt, pad) ==
    << Word(table[dt.m]), Space, Num(Digits2(dt.d, pad)), Comma, Space,
       Num(Digits4(dt.y)) >>

\* "Oct 2025" and "October 2025"
FormatMonthYear(table, y, m) ==
    << Word(table[m]), Space, Num(Digits4(y)) >>

\* a leap year, the year before it and the last year of datetime
TextYears == {2023, 2024, MAXYEAR}

TextMonths == {1, 2, 5, 10, 12}

\* the first, the fifteenth and the last day of the months
ReleaseDays ==
    { dt \in [y : TextYears, m : TextMonths, d : 1 .. 31] :
        dt.d \in {1, 15, MonthLen(dt.y, dt.m)} }

DayTexts ==
    UNION { { FormatDayMon(dt, pad), FormatMonDay(MonthAbbr, dt, pad),
              FormatMonDay(MonthName, dt, pad) } :
            dt \in ReleaseDays, pad \in BOOLEAN }

MonthTexts ==
    { FormatMonthYear(table, y, m) :
        table \in {MonthName, MonthAbbr}, y \in TextYears, m \in TextMonths }

VagueTexts ==
    { <<>>, <<Space>>, <<Space, Space>>,
      <<Word("Unknown")>>, <<Word("TBA")>>, <<Word("TBD")>>,
      <<Word("Coming"), Space, Word("Soon")>>,
      <<Space, Word("TBA"), Space>> }
    \cup { <<Num(Digits4(y))>> : y \in TextYears }
    \cup { <<Word(q), Space, Num(Digits4(y))>> : q \in Quarters, y \in {2024} }

OtherTexts ==
    { <<Word("Sept"), Space, Num(Digits4(2024))>>,
      <<Word("Q5"), Space, Num(Digits4(2024))>>,
      <<Num(<<3, 1>>), Space, Word("Feb"), Comma, Space, Num(Digits4(2024))>>,
      <<Num(<<1, 6>>), Space, Word("October"), Comma, Space,
        Num(Digits4(2024))>>,
      <<Space, Word("Oct"), Space, Num(Digits4(2024)), Space>>,
      <<Word("Oct"), Space, Num(<<1, 6>>), Comma, Space,
        Num(<<2, 0, 2, 4, 5>>)>> }

Texts == DayTexts \cup MonthTexts \cup VagueTexts \cup OtherTexts

\* the days a query range starts or ends with
QueryDays ==
    { [y |-> 2023, m |-> 12, d |-> 31], [y |-> 2024, m |-> 1, d |-> 1],
      [y |-> 2024, m |-> 1, d |-> 31],  [y |-> 2024, m |-> 2, d |-> 1],
      [y |-> 2024, m |-> 2, d |-> 28],  [y |-> 2024, m |-> 2, d |-> 29],
      [y |-> 2024, m |-> 3, d |-> 1],   [y |-> 2024, m |-> 10, d |-> 14],
      [y |-> 2024, m |-> 10, d |-> 15], [y |-> 2024, m |-> 10, d |-> 16],
      [y |-> 2024, m |-> 10, d |-> 31], [y |-> 2024, m |-> 11, d |-> 1],
      [y |-> 2023, m |-> 2, d |-> 28],  [y |-> 2023, m |-> 3, d |-> 1],
      [y |-> MAXYEAR, m |-> 11, d |-> 30], [y |-> MAXYEAR, m |-> 12, d |-> 1],
      [y |-> MAXYEAR, m |-> 12, d |-> 31] }

InitDates ==
    /\ query \in [pc : {"input"}, text : Texts, start : QueryDays,
                  end : QueryDays, release_dt : {NoDate}, result : {FALSE}]
    /\ db = setup_database
    /\ committed = setup_database
    /\ now = 0
    /\ call = Idle
    /\ stored = [ k \in {1, 2} |-> NoData ]
    /\ last = NoData
    /\ pre = setup_database
    /\ scraping_status = Ready
    /\ threads = [ t \in Threads |-> NoThread ]
    /\ reply = "none"
    /\ stopped = {}
    /\ index = NoIndex
    /\ harvest = NoHarvest
    /\ processed = <<>>
    /\ fields = NoFields

\* a call of parse_steam_date_to_comparable(text)
ParseCall ==
    /\ query.pc = "input"
    /\ query' = [query EXCEPT
                   !.pc = "parsed",
                   !.release_dt = parse_steam_date_to_comparable(query.text)]
    /\ UNCHANGED <<extractVars, runVars, harvestVars, itemVars, fieldVars>>

\* a call of is_steam_date_in_range(text, start, end)
RangeCall ==
    /\ query.pc = "input"
    /\ query' = [query EXCEPT
                   !.pc = "ranged",
                   !.release_dt = parse_steam_date_to_comparable(query.text),
                   !.result = is_steam_date_in_range(query.text, query.start,
                                                     query.end)]
    /\ UNCHANGED <<extractVars, runVars, harvestVars, itemVars, fieldVars>>

\* steam_db_search.py: a call of its parse_steam_date_to_comparable(text)
SearchParseCall ==
    /\ query.pc = "input"
    /\ query' = [query EXCEPT
                   !.pc = "parsed",
                   !.release_dt =
                       steam_db_search_parse_steam_date_to_comparable(query.text)]
    /\ UNCHANGED <<extractVars, runVars, harvestVars, itemVars, fieldVars>>

\* steam_db_search.py: a call of its is_steam_date_in_range(text, start, end)
SearchRangeCall ==
    /\ query.pc = "input"
    /\ query' = [query EXCEPT
                   !.pc = "ranged",
                   !.release_dt =
                       steam_db_search_parse_steam_date_to_comparable(query.text),
                   !.result =
                       steam_db_search_is_steam_date_in_range(query.text,
                                                              query.start,
                                                              query.end)]
    /\ UNCHANGED <<extractVars, runVars, harvestVars, itemVars, fieldVars>>

NextDates ==
    \/ ParseCall
    \/ RangeCall
    \/ SearchParseCall
    \/ SearchRangeCall

SpecDates == InitDates /\ [][NextDates]_vars

(***************************************************************************)
(* scrape_game_details, lines 174-371: the field extraction on one fetched *)
(* page.                                                                   *)
(***************************************************************************)
UpperCase == <<"A", "B", "C", "D", "E", "F", "G", "H", "I", "J", "K", "L", "M",
               "N", "O", "P", "Q", "R", "S", "T", "U", "V", "W", "X", "Y", "Z">>

LowerCase == <<"a", "b", "c", "d", "e", "f", "g", "h", "i", "j", "k", "l", "m",
               "n", "o", "p", "q", "r", "s", "t", "u", "v", "w", "x", "y", "z">>

\* str.lower()
Lower(s) ==
    [ i \in DOMAIN s |->
        IF \E k \in DOMAIN UpperCase : UpperCase[k] = s[i]
        THEN LowerCase[CHOOSE k \in DOMAIN UpperCase : UpperCase[k] = s[i]]
        ELSE s[i] ]

\* str.strip()
StripText(s) ==
    LET inked == { i \in DOMAIN s : s[i] \notin {" ", "\n", "\t"} }
    IN  IF inked = {} THEN <<>>
        ELSE SubSeq(s, CHOOSE i \in inked : \A j \in inked : i <= j,
                       CHOOSE i \in inked : \A j \in inked : i >= j)

\* sub in s
Contains(s, sub) ==
    \E i \in 0 .. Len(s) - Len(sub) : SubSeq(s, i + 1, i + Len(sub)) = sub

\* s.replace(c, '') for a single character c
Remove(s, c) == SelectSeq(s, LAMBDA x : x # c)

\* s.split(c, 1)[1] for a text that contains c
AfterFirst(s, c) ==
    SubSeq(s, (CHOOSE i \in DOMAIN s : s[i] = c /\ \A j \in 1 .. i - 1 : s[j] # c) + 1,
           Len(s))

\* s.split('\n')
RECURSIVE SplitLines(_)
SplitLines(s) ==
    IF \E i \in DOMAIN s : s[i] = "\n"
    THEN LET i == CHOOSE k \in DOMAIN s :
                      s[k] = "\n" /\ \A j \in 1 .. k - 1 : s[j] # "\n"
         IN  <<SubSeq(s, 1, i - 1)>> \o SplitLines(SubSeq(s, i + 1, Len(s)))
    ELSE <<s>>

DigitChars == <<"0", "1", "2", "3", "4", "5", "6", "7", "8", "9">>

IsDigitChar(c) == \E k \in DOMAIN DigitChars : DigitChars[k] = c

RECURSIVE IntOfDigits(_)
IntOfDigits(s) ==
    IF s = <<>> THEN 0
    ELSE 10 * IntOfDigits(SubSeq(s, 1, Len(s) - 1))
         + (CHOOSE k \in DOMAIN DigitChars : DigitChars[k] = s[Len(s)]) - 1

\* float(s) accepts: digits with at most one point among them, spaces around
\* (signs, exponents, underscores, inf and nan are not among the page texts)
FloatAccepts(s) ==
    LET t == StripText(s)
    IN  /\ \E i \in DOMAIN t : IsDigitChar(t[i])
        /\ \A i \in DOMAIN t : IsDigitChar(t[i]) \/ t[i] = "."
        /\ Cardinality({ i \in DOMAIN t : t[i] = "." }) <= 1

RECURSIVE DropZeros(_)
DropZeros(s) ==
    IF s # <<>> /\ s[Len(s)] = "0" THEN DropZeros(SubSeq(s, 1, Len(s) - 1))
    ELSE s

\* the value of float(s) for a text float accepts
FloatOf(s) ==
    LET t == StripText(s)
        whole == IF Contains(t, <<".">>)
                 THEN SubSeq(t, 1, Len(t) - Len(AfterFirst(t, ".")) - 1)
                 ELSE t
        behind == IF Contains(t, <<".">>) THEN DropZeros(AfterFirst(t, "."))
                  ELSE <<>>
    IN  [digits |-> IntOfDigits(whole \o behind), places |-> Len(behind)]

\* _extract_price: raised stands for the ValueError of float
_extract_price(soup) ==
    LET price_elem == soup.price_elem
    IN  IF price_elem # NoElem
           /\ ~(Lower(StripText(price_elem)) = <<"f", "r", "e", "e">>)
        THEN LET arg == Remove(Remove(StripText(price_elem), "$"), ",")
             IN  IF FloatAccepts(arg)
                 THEN [raised |-> FALSE, value |-> FloatOf(arg)]
                 ELSE [raised |-> TRUE, value |-> ZeroFloat]
        ELSE [raised |-> FALSE, value |-> ZeroFloat]

_extract_user_rating(soup) ==
    LET rating_elem == soup.rating_elem
    IN  IF rating_elem # NoElem
        THEN LET arg == Remove(StripText(rating_elem), "%")
             IN  IF FloatAccepts(arg)
                 THEN [raised |-> FALSE, value |-> FloatOf(arg)]
                 ELSE [raised |-> TRUE, value |-> NoRating]
        ELSE [raised |-> FALSE, value |-> NoRating]

PublisherLabel == <<"P", "u", "b", "l", "i", "s", "h", "e", "r", ":">>

DeveloperLabel == <<"D", "e", "v", "e", "l", "o", "p", "e", "r", ":">>

\* 'publisher' in text.lower()
MentionsPublisher(text) ==
    Contains(Lower(text), <<"p", "u", "b", "l", "i", "s", "h", "e", "r">>)

\* Method 1: the first .dev_row of the page, if its .subtitle names the
\* publisher: the text of its link, else the text behind the first colon
PublisherMethod1(soup, publisher) ==
    IF soup.dev_rows = <<>> THEN publisher
    ELSE LET pub_elem == soup.dev_rows[1]
         IN  IF pub_elem.subtitle # NoElem /\ MentionsPublisher(pub_elem.subtitle)
             THEN IF pub_elem.a # NoElem THEN StripText(pub_elem.a)
                  ELSE IF Contains(pub_elem.text, <<":">>)
                       THEN StripText(AfterFirst(pub_elem.text, ":"))
                       ELSE publisher
             ELSE publisher

\* Method 2: the first .details_block whose text holds 'Publisher:'; in it
\* the line after the first line that holds 'Publisher:' and is not the last
PublisherMethod2(soup, publisher) ==
    LET blocks == soup.details_block
        hits == { b \in DOMAIN blocks : Contains(blocks[b], PublisherLabel) }
    IN  IF hits = {} THEN publisher
        ELSE LET lines == SplitLines(blocks[CHOOSE b \in hits :
                                               \A c \in hits : b <= c])
                 at == { i \in DOMAIN lines :
                           Contains(lines[i], PublisherLabel) /\ i < Len(lines) }
             IN  IF at = {} THEN publisher
                 ELSE StripText(lines[(CHOOSE i \in at : \A j \in at : i <= j) + 1])

\* Method 3: the first link whose href holds '/publisher/'
PublisherMethod3(soup, publisher) ==
    IF soup.pub_link # NoElem THEN StripText(soup.pub_link) ELSE publisher

\* Method 4: the .dev_row elements inside .glance_ctn, the first of them
\* whose .subtitle names the publisher and which holds a link
PublisherMethod4(soup, publisher) ==
    LET rows == soup.dev_rows
        at == { i \in DOMAIN rows :
                  /\ rows[i].glance
                  /\ rows[i].subtitle # NoElem
                  /\ MentionsPublisher(rows[i].subtitle)
                  /\ rows[i].a # NoElem }
    IN  IF at = {} THEN publisher
        ELSE StripText(rows[CHOOSE i \in at : \A j \in at : i <= j].a)

\* lines 265-266
PublisherFallback(developer, publisher) ==
    IF publisher = Unknown /\ developer # Unknown THEN developer ELSE publisher

(***************************************************************************)
(* Pages.  A .dev_row is given by the text of its .subtitle, the text of   *)
(* its first link, its whole text and whether it lies inside .glance_ctn.  *)
(***************************************************************************)
DevRow(label, name, linked, glance) ==
    [subtitle |-> label, a |-> IF linked THEN name ELSE NoElem,
     text |-> label \o <<"\n">> \o name, glance |-> glance]

DevRowLists ==
    { <<>>,
      << DevRow(DeveloperLabel, <<"D">>, TRUE, FALSE) >>,
      << DevRow(PublisherLabel, <<"A">>, TRUE, FALSE) >>,
      << DevRow(PublisherLabel, Unknown, TRUE, FALSE) >>,
      << DevRow(PublisherLabel, <<" ", "A">>, FALSE, FALSE) >>,
      << DevRow(PublisherLabel, <<"A">>, TRUE, TRUE) >>,
      << DevRow(DeveloperLabel, <<"D">>, TRUE, TRUE),
         DevRow(PublisherLabel, <<"E">>, TRUE, TRUE) >>,
      << DevRow(DeveloperLabel, <<"D">>, TRUE, TRUE),
         DevRow(PublisherLabel, <<"E">>, FALSE, TRUE) >>,
      << DevRow(DeveloperLabel, <<"D">>, TRUE, FALSE),
         DevRow(PublisherLabel, <<"E">>, FALSE, TRUE),
         DevRow(PublisherLabel, <<"E">>, TRUE, TRUE) >> }

DetailsBlockLists ==
    { <<>>,
      << <<"G", "e", "n", "r", "e", ":", " ", "X", "\n">>,
         DeveloperLabel \o <<"\n", "D", "\n">> \o PublisherLabel
           \o <<"\n", " ", "B", "\n">> >>,
      << PublisherLabel \o <<"\n", "\n", "B">> >>,
      << <<"\n">> \o PublisherLabel >> }

PubLinks == { NoElem, <<"C">>, Unknown }

DeveloperElems == { NoElem, <<" ", "D", "\n">> }

PriceElems ==
    { NoElem,
      <<"F", "r", "e", "e">>,
      <<"\n", "F", "R", "E", "E", " ">>,
      <<"f", "r", "e", "e">>,
      <<"$", "9", ".", "9", "9">>,
      <<" ", "$", "1", ",", "2", "9", "9", ".", "0", "0", " ">>,
      <<"F", "r", "e", "e", " ", "t", "o", " ", "P", "l", "a", "y">>,
      <<>> }

RatingElems ==
    { NoElem,
      <<"9", "5", "%">>,
      <<"V", "e", "r", "y", " ", "P", "o", "s", "i", "t", "i", "v", "e">> }

\* the pages: every publisher layout on a page without price and rating,
\* and every price and rating on a page without publisher rows
Soups ==
    [dev_rows : DevRowLists, details_block : DetailsBlockLists,
     pub_link : PubLinks, developers_list : DeveloperElems,
     price_elem : {NoElem}, rating_elem : {NoElem}]
    \cup
    [dev_rows : {<<>>}, details_block : {<<>>}, pub_link : {NoElem},
     developers_list : DeveloperElems, price_elem : PriceElems,
     rating_elem : RatingElems]

InitFields ==
    /\ fields = NoFields
    /\ db = setup_database
    /\ committed = setup_database
    /\ now = 0
    /\ call = Idle
    /\ stored = [ k \in {1, 2} |-> NoData ]
    /\ last = NoData
    /\ pre = setup_database
    /\ scraping_status = Ready
    /\ threads = [ t \in Threads |-> NoThread ]
    /\ reply = "none"
    /\ stopped = {}
    /\ index = NoIndex
    /\ harvest = NoHarvest
    /\ processed = <<>>
    /\ query = NoQuery

\* lines 174-200: the page is parsed and game_data gets its defaults
MakeSoup(soup) ==
    /\ fields.pc = "none"
    /\ fields' = [NoFields EXCEPT !.pc = "developer", !.soup = soup]
    /\ UNCHANGED <<extractVars, runVars, harvestVars, itemVars, dateVars>>

\* lines 207-209
ExtractDeveloper ==
    /\ fields.pc = "developer"
    /\ fields' = [fields EXCEPT
                    !.pc = "method1",
                    !.developer = IF fields.soup.developers_list # NoElem
                                  THEN StripText(fields.soup.developers_list)
                                  ELSE @]
    /\ UNCHANGED <<extractVars, runVars, harvestVars, itemVars, dateVars>>

\* lines 212-228
ConsultMethod1 ==
    /\ fields.pc = "method1"
    /\ fields' = [fields EXCEPT
                    !.pc = "method2",
                    !.publisher = PublisherMethod1(fields.soup, Unknown),
                    !.consulted = @ \cup {1}]
    /\ UNCHANGED <<extractVars, runVars, harvestVars, itemVars, dateVars>>

\* lines 231-242
ConsultMethod2 ==
    /\ fields.pc = "method2"
    /\ fields' = IF fields.publisher = Unknown
                 THEN [fields EXCEPT
                         !.pc = "method3",
                         !.publisher = PublisherMethod2(fields.soup, @),
                         !.consulted = @ \cup {2}]
                 ELSE [fields EXCEPT !.pc = "method3"]
    /\ UNCHANGED <<extractVars, runVars, harvestVars, itemVars, dateVars>>

\* lines 245-249
ConsultMethod3 ==
    /\ fields.pc = "method3"
    /\ fields' = IF fields.publisher = Unknown
                 THEN [fields EXCEPT
                         !.pc = "method4",
                         !.publisher = PublisherMethod3(fields.soup, @),
                         !.consulted = @ \cup {3}]
                 ELSE [fields EXCEPT !.pc = "method4"]
    /\ UNCHANGED <<extractVars, runVars, harvestVars, itemVars, dateVars>>

\* lines 252-262
ConsultMethod4 ==
    /\ fields.pc = "method4"
    /\ fields' = IF fields.publisher = Unknown
                 THEN [fields EXCEPT
                         !.pc = "fallback",
                         !.publisher = PublisherMethod4(fields.soup, @),
                         !.consulted = @ \cup {4}]
                 ELSE [fields EXCEPT !.pc = "fallback"]
    /\ UNCHANGED <<extractVars, runVars, harvestVars, itemVars, dateVars>>

\* lines 265-268
ResolvePublisher ==
    /\ fields.pc = "fallback"
    /\ fields' = [fields EXCEPT
                    !.pc = "price",
                    !.publisher = PublisherFallback(fields.developer, @)]
    /\ UNCHANGED <<extractVars, runVars, harvestVars, itemVars, dateVars>>

\* line 359; the ValueError of float is caught at line 378 and the call
\* returns None
ExtractPrice ==
    /\ fields.pc = "price"
    /\ LET price == _extract_price(fields.soup)
       IN  fields' = IF price.raised
                     THEN [fields EXCEPT !.pc = "returned", !.result = "None"]
                     ELSE [fields EXCEPT !.pc = "rating", !.price = price.value]
    /\ UNCHANGED <<extractVars, runVars, harvestVars, itemVars, dateVars>>

\* line 367, likewise; otherwise the call goes on to _save_to_database and
\* returns game_data
ExtractRating ==
    /\ fields.pc = "rating"
    /\ LET rating == _extract_user_rating(fields.soup)
       IN  fields' = IF rating.raised
                     THEN [fields EXCEPT !.pc = "returned", !.result = "None"]
                     ELSE [fields EXCEPT !.pc = "returned",
                                         !.user_rating = rating.value,
                                         !.result = "game_data"]
    /\ UNCHANGED <<extractVars, runVars, harvestVars, itemVars, dateVars>>

NextFields ==
    \/ \E soup \in Soups : MakeSoup(soup)
    \/ ExtractDeveloper
    \/ ConsultMethod1
    \/ ConsultMethod2
    \/ ConsultMethod3
    \/ ConsultMethod4
    \/ ResolvePublisher
    \/ ExtractPrice
    \/ ExtractRating

SpecFields == InitFields /\ [][NextFields]_vars

(***************************************************************************)
(* Vocabulary of the store properties.                                     *)
(***************************************************************************)
Keys == { IntOfText(AppIdOf(l)) : l \in Links }

SaveSteps == {"save_games", "save_delete", "save_insert", "save_commit"}

KeyOf(g) == IntOfText(g.app_id)

TagRowsOf(t, key) == { r \in t.tags : r.app_id = key }

GameRowsOf(t, key) == { r \in t.games : r.app_id = key }

HasUpsert(key) == stored[key] # NoData

LatestUpsert(key) == stored[key]

\* the rows of a table set without last_updated and without the tag row ids
Content(t) ==
    [games |-> { [app_id |-> r.app_id, name |-> r.name,
                  steam_url |-> r.steam_url] : r \in t.games },
     tags |-> [ k \in Keys, x \in TagTexts |->
                  Cardinality({ r \in t.tags : r.app_id = k /\ r.tag = x }) ]]

Stored(t, g) ==
    /\ \E r \in t.games : /\ r.app_id = KeyOf(g)
                          /\ r.name = g.name
                          /\ r.steam_url = g.steam_url
    /\ { r.tag : r \in TagRowsOf(t, KeyOf(g)) } = Range(g.tags)
    /\ Cardinality(TagRowsOf(t, KeyOf(g))) = Len(g.tags)

ReturnedRecord == call.pc = "returned" /\ call.result = "game_data"

Committed == ReturnedRecord /\ call.fault = "none"

(***************************************************************************)
(* C1: at most one thread is executing WebScraper.start_scraping.          *)
(***************************************************************************)
C1_OneRunAtATime == Cardinality({ t \in Threads : Running(t) }) <= 1

(***************************************************************************)
(* C2: a thread that had set is_active when a stop arrived starts no       *)
(* further item extraction: it never moves from outside                    *)
(* scrape_game_details into it.                                            *)
(***************************************************************************)
C2_StopIsFinal ==
    [][ \A t \in stopped :
           threads[t].pc # "scrape" => threads'[t].pc # "scrape" ]_vars

(***************************************************************************)
(* C3: the tag rows committed for an app id are exactly the tags of the    *)
(* latest committed upsert of that id, one row per extracted tag; an id    *)
(* never upserted has no tag row.                                          *)
(***************************************************************************)
C3_TagsOfLatestUpsert ==
    \A key \in Keys :
        LET rows == TagRowsOf(committed, key)
        IN  IF HasUpsert(key)
            THEN /\ { r.tag : r \in rows } = Range(LatestUpsert(key).tags)
                 /\ Cardinality(rows) = Len(LatestUpsert(key).tags)
            ELSE rows = {}

\* an upsert with two different tags followed by one of the same id with
\* the single tag A: one tag row is left
C3_Witness ==
    /\ Committed
    /\ { r.tag : r \in TagRowsOf(pre, KeyOf(call.game_data)) } = {"A", "B"}
    /\ call.game_data.tags = <<"A">>
    /\ Cardinality(TagRowsOf(committed, KeyOf(call.game_data))) = 1

(***************************************************************************)
(* C4: games never holds two rows with the same app_id, inside or outside  *)
(* a transaction, and the committed row of an id carries the field values  *)
(* of the latest committed upsert of that id.                              *)
(***************************************************************************)
C4_OneRowPerId ==
    /\ \A key \in Keys : /\ Cardinality(GameRowsOf(db, key)) <= 1
                         /\ Cardinality(GameRowsOf(committed, key)) <= 1
    /\ \A key \in Keys :
         HasUpsert(key) =>
            \A r \in GameRowsOf(committed, key) :
                /\ r.name = LatestUpsert(key).name
                /\ r.steam_url = LatestUpsert(key).steam_url

\* a stored id has been upserted again with other field values
C4_Witness ==
    /\ Committed
    /\ \E r \in pre.games : /\ r.app_id = KeyOf(call.game_data)
                            /\ r.name # call.game_data.name
                            /\ r.steam_url # call.game_data.steam_url

(***************************************************************************)
(* C5: nothing of an upsert is committed before its commit; after a        *)
(* caught sqlite3.Error both the committed tables and the connection's     *)
(* view are what they were when the call began, so that no later commit    *)
(* can carry a partial write; after the commit the row, the deletion of    *)
(* the old tag rows and the new tag rows are all there.                    *)
(***************************************************************************)
C5_UpsertAtomic ==
    /\ call.pc \in SaveSteps => committed = pre
    /\ call.pc \notin SaveSteps => db = committed
    /\ (call.pc = "returned" /\ call.fault # "none") => committed = pre
    /\ Committed =>
         /\ Stored(committed, call.game_data)
         /\ \A r \in TagRowsOf(committed, KeyOf(call.game_data)) : r.id > pre.seq
         /\ \A r \in GameRowsOf(committed, KeyOf(call.game_data)) :
                r.last_updated = now

\* sqlite3.Error at the tag insertion, after the row of a stored id was
\* replaced and its tag rows deleted; the old row and tags are back
C5_Witness ==
    /\ call.pc = "returned"
    /\ call.fault = "save_insert"
    /\ \E r \in pre.games : /\ r.app_id = KeyOf(call.game_data)
                            /\ r.name # call.game_data.name
    /\ TagRowsOf(pre, KeyOf(call.game_data)) # {}
    /\ db = pre

(***************************************************************************)
(* C6: when the record just committed is the record of the previous        *)
(* committed upsert, games and tags hold what they held before the call,   *)
(* last_updated and the tag row ids apart.                                 *)
(***************************************************************************)
C6_UpsertIdempotent ==
    (Committed /\ call.prev = call.game_data)
    => Content(committed) = Content(pre)

\* the same record, with tags, committed twice in a row
C6_Witness ==
    /\ Committed
    /\ call.prev = call.game_data
    /\ Len(call.game_data.tags) = 2
    /\ \E r \in GameRowsOf(committed, KeyOf(call.game_data)) :
         \E q \in GameRowsOf(pre, KeyOf(call.game_data)) :
            r.last_updated > q.last_updated

(***************************************************************************)
(* C7: a call that returns game_data has its record committed, and a call  *)
(* whose upsert caught a storage fault does not return game_data.          *)
(***************************************************************************)
C7_ReturnedIsStored ==
    /\ ReturnedRecord => Stored(committed, call.game_data)
    /\ (call.pc = "returned" /\ call.fault # "none") => call.result # "game_data"

(***************************************************************************)
(* C8: a call performs at most max_retries GETs; a GET that succeeds       *)
(* after fewer than max_retries failures makes it return game_data; after  *)
(* max_retries failures it returns None and the tables are untouched.      *)
(* C8_Original is the claim as stated; C8_BoundedRetry requires in         *)
(* addition that the fetched page raises no non-transport error, and that  *)
(* every step of a call lowers a non-negative rank (termination).          *)
(***************************************************************************)
C8_Attempts ==
    /\ call.gets <= max_retries
    /\ call.retry_count <= max_retries
    /\ (call.pc = "returned" /\ call.retry_count = max_retries) =>
          /\ call.result = "None"
          /\ call.failure = "Unreachable"
          /\ call.gets = max_retries
          /\ db = pre
          /\ committed = pre

C8_Original ==
    /\ C8_Attempts
    /\ (call.pc = "returned" /\ call.gets > call.retry_count) =>
          call.result = "game_data"

C8_Amended ==
    /\ C8_Attempts
    /\ ( /\ call.pc = "returned"
         /\ call.gets > call.retry_count
         /\ call.failure # "ParseError" ) => call.result = "game_data"

StepRank(pc) ==
    CASE pc = "get" -> 6
      [] pc = "parse" -> 5
      [] pc = "save_games" -> 4
      [] pc = "save_delete" -> 3
      [] pc = "save_insert" -> 2
      [] pc = "save_commit" -> 1
      [] OTHER -> 0

Rank(c) ==
    IF c.pc \in {"idle", "returned"} THEN 0
    ELSE 7 * (max_retries - c.retry_count) + StepRank(c.pc)

C8_Step ==
    /\ C8_Amended'
    /\ call.pc \notin {"idle", "returned"} =>
          /\ Rank(call) > 0
          /\ Rank(call') < Rank(call)

C8_BoundedRetry == [][C8_Step]_vars

\* two transport failures, then a GET that succeeds: the third attempt
\* returns the record
C8_Witness ==
    /\ ReturnedRecord
    /\ call.retry_count = 2
    /\ call.gets = 3

(***************************************************************************)
(* C9: once field extraction has raised a non-transport error the call     *)
(* has returned None, the GET that fetched the page was its last one, and  *)
(* the tables are what they were when the call began.                      *)
(***************************************************************************)
C9_ParseErrorAborts ==
    call.failure = "ParseError" =>
        /\ call.pc = "returned"
        /\ call.result = "None"
        /\ call.gets = call.retry_count + 1
        /\ db = pre
        /\ committed = pre

\* a parse error on the first attempt, two attempts left, store not empty
C9_Witness ==
    /\ call.failure = "ParseError"
    /\ call.retry_count = 0
    /\ call.gets = 1
    /\ pre.games # {}

(***************************************************************************)
(* C10: N is the last pass in which the page brings a link that is not     *)
(* stored yet into view (0 if there is none).  C10_Original is the claim   *)
(* as stated, for a harvest that returns without an exception from a page  *)
(* without size hint: it made at least N and at most N + 5 passes.         *)
(* C10_Convergence: such a harvest never makes more than N + 5 passes,     *)
(* and makes exactly N + 5 when it raises no exception and the page never  *)
(* lets max_attempts passes in a row go by without a new link before       *)
(* pass N.                                                                 *)
(***************************************************************************)
Yields(j) ==
    \E l \in Links : /\ index.appears[l] = j
                     /\ AppIdOf(l) \notin harvest.existing_apps

LastYield ==
    IF \E j \in 1 .. MaxScrolls : Yields(j)
    THEN CHOOSE j \in 1 .. MaxScrolls :
            Yields(j) /\ \A k \in 1 .. MaxScrolls : k > j => ~Yields(k)
    ELSE 0

\* no max_attempts passes in a row without a new link up to pass N
NoLongPause ==
    \A j \in 1 .. LastYield :
        j + max_attempts - 1 <= LastYield =>
            \E k \in j .. j + max_attempts - 1 : Yields(k)

NoHintHarvestReturned ==
    /\ harvest.pc = "returned"
    /\ index.hint = NoHint

C10_Original ==
    (NoHintHarvestReturned /\ harvest.stop # "exception") =>
        /\ harvest.iterations <= LastYield + max_attempts
        /\ harvest.iterations >= LastYield

C10_Convergence ==
    NoHintHarvestReturned =>
        /\ harvest.iterations <= LastYield + max_attempts
        /\ (harvest.stop # "exception" /\ NoLongPause) =>
              harvest.iterations = LastYield + max_attempts

\* new links in passes 1 and 3, none in pass 2: the harvest ends with
\* pass 8
C10_Witness ==
    /\ NoHintHarvestReturned
    /\ harvest.stop = "stagnation"
    /\ Yields(1) /\ ~Yields(2) /\ Yields(3)
    /\ LastYield = 3
    /\ harvest.iterations = 8

\* the ids of the rows of games, as get_existing_app_ids gives them
StoredIds == { TextOfInt(k) : k \in { r.app_id : r \in committed.games } }

(***************************************************************************)
(* C11: a pass after which the page shows a size hint and the number of    *)
(* discovered links plus the number of stored ids is at least the hint     *)
(* leaves the loop; after the loop there is no further pass and the        *)
(* harvest returns the discovered links.                                   *)
(***************************************************************************)
C11_Step ==
    /\ ( /\ harvest.pc = "loop"
         /\ harvest'.iterations = harvest.iterations + 1
         /\ harvest'.stop # "exception"
         /\ index.hint # NoHint
         /\ Cardinality(harvest'.game_links) + Cardinality(StoredIds)
               >= index.hint )
        => harvest'.pc = "break"
    /\ harvest.pc = "break" =>
          /\ harvest'.pc = "returned"
          /\ harvest'.iterations = harvest.iterations
          /\ Range(harvest'.result) = harvest.game_links
          /\ Len(harvest'.result) = Cardinality(harvest.game_links)

C11_EarlyStop == [][C11_Step]_vars

\* the second pass brings the total up to the hint exactly
C11_Witness ==
    /\ harvest.pc = "returned"
    /\ harvest.stop = "hint"
    /\ harvest.iterations = 2
    /\ StoredIds # {}
    /\ harvest.game_links # {}
    /\ Cardinality(harvest.game_links) + Cardinality(StoredIds) = index.hint
    /\ Range(harvest.result) = harvest.game_links

(***************************************************************************)
(* C12: no discovered link and no returned link has a stored id; every     *)
(* link that was in view in a completed pass and has no stored id is       *)
(* discovered; a harvest that ends without exception returns exactly the   *)
(* discovered links.                                                       *)
(***************************************************************************)
CompletedPasses ==
    IF harvest.stop = "exception" THEN harvest.iterations - 1
    ELSE harvest.iterations

C13_PartialKept ==
    (harvest.pc = "returned" /\ harvest.stop = "exception") =>
        Range(harvest.result) = harvest.game_links

(***************************************************************************)
(* C14: the harvest loop looks at the cancellation flag at the top of each *)
(* pass: with the flag taken down by a stop that found the worker active,  *)
(* the loop makes no further pass.                                         *)
(***************************************************************************)
C14_HarvestHonoursStop ==
    [][ ( /\ 1 \in stopped
          /\ ~scraping_status.is_active
          /\ harvest.pc = "loop" )
        => ~( /\ harvest'.iterations = harvest.iterations + 1
              /\ harvest'.stop # "exception" ) ]_vars

(***************************************************************************)
(* C15: a run that no stop has reached leaves its for loop only after the  *)
(* last link of the list the harvest returned, whatever the outcomes of    *)
(* the items; every call is made for the next link of the list; a call     *)
(* leaves the committed rows of all other ids as they were, and a call     *)
(* that commits nothing leaves all committed rows as they were.            *)
(***************************************************************************)
C15_Step ==
    LET th == threads[1]
        url == th.game_links[th.i + 1]
        key == IntOfText(AppIdOf(url))
    IN  /\ (th.pc = "check" /\ threads'[1].pc = "finish" /\ 1 \notin stopped')
              => th.i = Len(th.game_links)
        /\ (th.pc = "scrape" /\ threads'[1] # th) =>
              /\ threads'[1].pc = "check"
              /\ threads'[1].i = th.i + 1
              /\ Len(processed') = th.i + 1
              /\ \A k \in Keys \ {key} :
                    /\ GameRowsOf(committed', k) = GameRowsOf(committed, k)
                    /\ TagRowsOf(committed', k) = TagRowsOf(committed, k)
              /\ processed'[th.i + 1] # "stored" =>
                    /\ committed' = committed
                    /\ db' = db

C15_FailureNeverAborts == [][C15_Step]_vars

\* three links, the first fails at transport level, the second on its
\* page, the third is stored, and the run ends without a stop
C15_Witness ==
    /\ threads[1].pc = "done"
    /\ stopped = {}
    /\ scraping_status.status_message = "Completed"
    /\ Len(threads[1].game_links) = 3
    /\ processed = <<"transport", "parse", "stored">>
    /\ GameRowsOf(committed, KeyOf(PageOf(threads[1].game_links[3]))) # {}

(***************************************************************************)
(* C16: the number in the final message of a run is the number of items    *)
(* of the run whose record was stored.                                     *)
(***************************************************************************)
Successes == Cardinality({ k \in DOMAIN processed : processed[k] = "stored" })

C16_FinalCount ==
    (threads[1].pc = "done" /\ scraping_status.status_message = "Completed")
        => scraping_status.completed_count = Successes

(***************************************************************************)
(* C17: when the loop calls scrape_game_details for a link, no link that   *)
(* is still to come in the run came into view in an earlier pass of the    *)
(* harvest than this link.                                                 *)
(***************************************************************************)
C17_DiscoveryOrder ==
    [][ (threads[1].pc = "check" /\ threads'[1].pc = "scrape") =>
          LET th == threads[1]
              b == th.game_links[th.i + 1]
          IN  \A k \in th.i + 2 .. Len(th.game_links) :
                index.appears[th.game_links[k]] >= index.appears[b] ]_vars

\* a day as a number that grows with the calendar
DayKey(dt) == dt.y * 10000 + dt.m * 100 + dt.d

\* the day lies in the range, both ends included
InQueryRange(dt) ==
    DayKey(query.start) <= DayKey(dt) /\ DayKey(dt) <= DayKey(query.end)

(***************************************************************************)
(* C18: for a text 'Month YYYY' or 'Mon YYYY' and a range whose start is   *)
(* not after its end, is_steam_date_in_range is true exactly when one of   *)
(* the days of that month, from the first to its last by the calendar,     *)
(* lies in the range.                                                      *)
(***************************************************************************)
C18_MonthPrecision ==
    \A table \in {MonthName, MonthAbbr}, y \in TextYears, m \in TextMonths :
        ( /\ query.pc = "ranged"
          /\ query.text = FormatMonthYear(table, y, m)
          /\ DayKey(query.start) <= DayKey(query.end) )
        => ( query.result <=>
               \E d \in 1 .. MonthLen(y, m) :
                  InQueryRange([y |-> y, m |-> m, d |-> d]) )

(***************************************************************************)
(* C19: a day written as 'D Mon, YYYY', 'Mon D, YYYY' or 'Month D, YYYY'   *)
(* is parsed to that day, and is_steam_date_in_range is true exactly when  *)
(* the day is not before the start and not after the end of the range.     *)
(***************************************************************************)
\* the day a text of one of the three formats is the writing of
WrittenDay ==
    [ t \in DayTexts |->
        CHOOSE dt \in ReleaseDays : \E pad \in BOOLEAN :
            t \in { FormatDayMon(dt, pad), FormatMonDay(MonthAbbr, dt, pad),
                    FormatMonDay(MonthName, dt, pad) } ]

C19_DayPrecision ==
    (query.pc \in {"parsed", "ranged"} /\ query.text \in DayTexts)
        => /\ query.release_dt = WrittenDay[query.text]
           /\ query.pc = "ranged" =>
                 (query.result <=> InQueryRange(WrittenDay[query.text]))

\* 'October 15, 2024' matches the range that is this one day
C19_Witness ==
    /\ query.pc = "ranged"
    /\ query.text = FormatMonDay(MonthName, [y |-> 2024, m |-> 10, d |-> 15],
                                 FALSE)
    /\ query.start = [y |-> 2024, m |-> 10, d |-> 15]
    /\ query.end = query.start
    /\ query.release_dt = query.start
    /\ query.result

(***************************************************************************)
(* C20: an empty or whitespace-only text, a sentinel, a bare year and a    *)
(* quarter are parsed to None and match no range.                          *)
(***************************************************************************)
C20_VagueNeverMatches ==
    (query.pc \in {"parsed", "ranged"} /\ query.text \in VagueTexts)
        => /\ query.release_dt = NoDate
           /\ query.result = FALSE

\* the bare year 2024 against a range that holds the whole year
C20_Witness ==
    /\ query.pc = "ranged"
    /\ query.text = <<Num(Digits4(2024))>>
    /\ query.start = [y |-> 2023, m |-> 12, d |-> 31]
    /\ query.end = [y |-> MAXYEAR, m |-> 12, d |-> 31]
    /\ query.result = FALSE

(***************************************************************************)
(* C21: on a page whose price element is missing, reads 'free' in any      *)
(* letter case or holds a text that is no number, a call that no other     *)
(* field stops returns game_data, and the price in it is 0.                *)
(***************************************************************************)
PriceDefaultCase(soup) ==
    \/ soup.price_elem = NoElem
    \/ Lower(StripText(soup.price_elem)) = <<"f", "r", "e", "e">>
    \/ ~FloatAccepts(Remove(Remove(StripText(soup.price_elem), "$"), ","))

C21_PriceDefault ==
    /\ fields.pc = "returned"
    /\ PriceDefaultCase(fields.soup)
    /\ ~_extract_user_rating(fields.soup).raised
    => /\ fields.result = "game_data"
       /\ fields.price = ZeroFloat

(***************************************************************************)
(* C25: once the publisher is resolved it is the value of the first of the *)
(* four methods, in their order, that finds one on the page, and no method *)
(* behind that one has looked at the page; if none of the four finds a     *)
(* value, the publisher is the developer.                                  *)
(***************************************************************************)
\* what method k finds on the page, NoElem if it finds nothing
Produced(soup, k) ==
    CASE k = 1 -> PublisherMethod1(soup, NoElem)
      [] k = 2 -> PublisherMethod2(soup, NoElem)
      [] k = 3 -> PublisherMethod3(soup, NoElem)
      [] k = 4 -> PublisherMethod4(soup, NoElem)

Succeeding(soup) == { k \in 1 .. 4 : Produced(soup, k) # NoElem }

C25_FirstSuccess ==
    fields.pc \in {"price", "rating", "returned"}
    => LET ok == Succeeding(fields.soup)
       IN  IF ok = {} THEN fields.publisher = fields.developer
           ELSE LET first == CHOOSE k \in ok : \A j \in ok : k <= j
                IN  /\ fields.publisher = Produced(fields.soup, first)
                    /\ fields.consulted \subseteq 1 .. first

(***************************************************************************)
(* C22: when the harvest returns no link the worker makes no call of       *)
(* scrape_game_details and ends at once, inactive, with the message 'No    *)
(* new games found to scrape.'; that message is written in no other step,  *)
(* and a worker that has ended stays as it is.                             *)
(***************************************************************************)
C22_Step ==
    LET th == threads[1]
        NoNew == "No new games found to scrape."
    IN  /\ (th.pc = "collect" /\ threads'[1] # th /\ harvest.result = <<>>)
            => /\ scraping_status'.status_message = NoNew
               /\ ~scraping_status'.is_active
               /\ threads'[1].pc = "done"
               /\ processed' = <<>>
               /\ committed' = committed
        /\ (scraping_status'.status_message = NoNew
               /\ scraping_status.status_message # NoNew)
            => /\ th.pc = "collect"
               /\ harvest.pc = "returned"
               /\ harvest.result = <<>>
               /\ threads'[1].pc = "done"
        /\ th.pc = "done"
            => /\ threads'[1] = th
               /\ processed' = processed
               /\ committed' = committed
               /\ \/ scraping_status' = scraping_status
                  \/ scraping_status'.status_message = "Stopping..."
               /\ ~scraping_status'.is_active

C22_EmptyHarvest == [][C22_Step]_vars

C22_Witness ==
    /\ threads[1].pc = "done"
    /\ scraping_status.status_message = "No new games found to scrape."
    /\ ~scraping_status.is_active
    /\ harvest.stop = "hint"
    /\ processed = <<>>

(***************************************************************************)
(* C23: the update published before an item and the update published at    *)
(* the end of the run carry, as scraped_count, the number of items the     *)
(* loop has been through; at the end of a run no stop has reached that is  *)
(* the number of links of the run.                                         *)
(***************************************************************************)
C23_ProgressAfterItem ==
    LET th == threads[1]
    IN  /\ th.pc = "scrape"
            => scraping_status.scraped_count = Len(processed)
        /\ (th.pc = "done" /\ scraping_status.status_message = "Completed")
            => /\ scraping_status.scraped_count = Len(processed)
               /\ stopped = {}
                   => scraping_status.scraped_count = Len(th.game_links)

(***************************************************************************)
(* C24: no step of a run (harvest, item, stop or search) takes an app_id   *)
(* out of the committed games, and the only steps that change games or     *)
(* tags are the upserts of scrape_game_details.                            *)
(***************************************************************************)
GameIds(t) == { r.app_id : r \in t.games }

C24_Step ==
    /\ GameIds(committed) \subseteq GameIds(committed')
    /\ (committed' # committed \/ db' # db)
       => /\ threads[1].pc = "scrape"
          /\ processed' = Append(processed, "stored")

C24_NeverDeleted == [][C24_Step]_vars

C24_Witness ==
    /\ query.pc = "searched"
    /\ harvest.pc = "returned"
    /\ processed = <<"stored", "fault">>
    /\ GameIds(committed) = {1}

(***************************************************************************)
(* C26: after every completed pass no_new_games_count is the number of     *)
(* passes, counted back from the latest one, that added no link; it is     *)
(* never above max_attempts, and with max_attempts reached the loop is     *)
(* left.                                                                   *)
(***************************************************************************)
\* the passes since the latest one that added a link, out of the first n
Barren(n) ==
    IF \E j \in 1 .. n : Yields(j)
    THEN n - (CHOOSE j \in 1 .. n : Yields(j) /\ \A k \in j + 1 .. n : ~Yields(k))
    ELSE n

C26_StagnationCounter ==
    /\ harvest.no_new_games_count <= max_attempts
    /\ harvest.pc = "loop" => harvest.no_new_games_count < max_attempts
    /\ (harvest.pc \in {"loop", "break", "returned"} /\ harvest.stop # "exception")
       => harvest.no_new_games_count = Barren(harvest.iterations)

\* a pass with a new link after a pass without, then a pass without
C26_Witness ==
    /\ harvest.pc = "loop"
    /\ harvest.iterations = 4
    /\ Yields(1) /\ ~Yields(2) /\ Yields(3) /\ ~Yields(4)
    /\ harvest.no_new_games_count = 1

(***************************************************************************)
(* C27: when the loop is left because the number of discovered links plus  *)
(* the number of stored ids has reached the number the page shows, and     *)
(* that number is the number of rows the page lists, every listed row has  *)
(* its app_id among the stored ids or among the ids of the discovered      *)
(* links.                                                                  *)
(***************************************************************************)
Listed == { l \in Links : index.appears[l] # 0 }

C27_EarlyStopCovers ==
    (harvest.stop = "hint" /\ index.hint = Cardinality(Listed))
    => \A l \in Listed :
          \/ AppIdOf(l) \in harvest.existing_apps
          \/ AppIdOf(l) \in { AppIdOf(d) : d \in harvest.game_links }

(***************************************************************************)
(* C28: whichever module made the call, the date a text was parsed to is   *)
(* the one parse_steam_date_to_comparable of app.py and the one of         *)
(* steam_db_search.py give for it, and the answer for a range is the one   *)
(* is_steam_date_in_range of app.py and the one of steam_db_search.py      *)
(* give.                                                                   *)
(***************************************************************************)
C28_CopiesAgree ==
    /\ query.pc \in {"parsed", "ranged"}
       => /\ query.release_dt = parse_steam_date_to_comparable(query.text)
          /\ query.release_dt =
                steam_db_search_parse_steam_date_to_comparable(query.text)
    /\ query.pc = "ranged"
       => /\ query.result = is_steam_date_in_range(query.text, query.start,
                                                    query.end)
          /\ query.result =
                steam_db_search_is_steam_date_in_range(query.text, query.start,
                                                       query.end)

\* a month text matched by a range that begins inside the month
C28_Witness ==
    /\ query.pc = "ranged"
    /\ MatchMonthYear(Strip(query.text))
    /\ Before(query.release_dt, query.start)
    /\ query.result

(***************************************************************************)
(* C29: for a range whose start is after its end is_steam_date_in_range    *)
(* is false, whatever the text.                                            *)
(***************************************************************************)
C29_EmptyInterval ==
    (query.pc = "ranged" /\ Before(query.end, query.start)) => ~query.result

(***************************************************************************)
(* C30: in the committed tables and in the connection's view, at every     *)
(* step of an upsert and after its commit or rollback, every row of tags   *)
(* has the app_id of a row of games.                                       *)
(***************************************************************************)
TagsRefer(t) == \A r \in t.tags : \E g \in t.games : g.app_id = r.app_id

C30_TagIntegrity == TagsRefer(db) /\ TagsRefer(committed)

\* a committed upsert of an id that was not stored, after which the id has
\* tag rows
C30_Witness ==
    /\ Committed
    /\ GameRowsOf(pre, KeyOf(call.game_data)) = {}
    /\ TagRowsOf(committed, KeyOf(call.game_data)) # {}
    /\ pre.tags # {}

====
